---- MODULE Spec2Model ----
(***************************************************************************)
(* RelayMCP: the two tools check_status and post_status of src/tools.py,   *)
(* the pydantic response models of src/models.py and get_user_from_username*)
(* of src/auth.py.  A call is a coroutine with one await point (the        *)
(* outbound client.post); the external service is the environment.         *)
(***************************************************************************)
EXTENDS Integers, Sequences, FiniteSets, TLC

VARIABLES
    VERCEL_URL,   \* module-level constant of tools.py, read from the environment at import
    pc,           \* pc[c]: "idle", "awaiting" (inside client.post), "ready" (outcome arrived), "returned", "raised"
    op,           \* op[c]: the tool the call runs
    args,         \* args[c]: the keyword arguments the caller gave
    sent,         \* sent[c]: the outbound requests the call has issued, in order
    outcome,      \* outcome[c]: what client.post produced for the call
    result        \* result[c]: what the call handed to its caller

vars == <<VERCEL_URL, pc, op, args, sent, outcome, result>>

(***************************************************************************)
(* Python / JSON values.  Every value carries its type, so that a body     *)
(* with a field of the wrong type is a value like any other.               *)
(***************************************************************************)
None == [t |-> "none"]
Bool(b) == [t |-> "bool", b |-> b]
Str(s) == [t |-> "str", s |-> s]
Num(n) == [t |-> "num", n |-> n]
List(l) == [t |-> "list", l |-> l]
Dict(d) == [t |-> "dict", d |-> d]

EmptyDict == Dict(<<>>)

(***************************************************************************)
(* pydantic (v2, lax mode) field validation.  A validator yields           *)
(* [ok, val]: val is the validated value as model_dump() returns it.       *)
(***************************************************************************)
Ok(v) == [ok |-> TRUE, val |-> v]
Err == [ok |-> FALSE, val |-> None]

\* The strings lax mode accepts for a bool field.
TrueStrings == {"1", "true", "t", "yes", "y", "on"}
FalseStrings == {"0", "false", "f", "no", "n", "off"}

\* The numeric strings of the model's bodies, with the number each parses to.
ParseFloat == ("7" :> 7)

ValStr(v) == IF v.t = "str" THEN Ok(v) ELSE Err

ValBool(v) ==
    CASE v.t = "bool" -> Ok(v)
      [] v.t = "str" /\ v.s \in TrueStrings -> Ok(Bool(TRUE))
      [] v.t = "str" /\ v.s \in FalseStrings -> Ok(Bool(FALSE))
      [] v.t = "num" /\ v.n = 1 -> Ok(Bool(TRUE))
      [] v.t = "num" /\ v.n = 0 -> Ok(Bool(FALSE))
      [] OTHER -> Err

ValFloat(v) ==
    CASE v.t = "num" -> Ok(v)
      [] v.t = "str" /\ v.s \in DOMAIN ParseFloat -> Ok(Num(ParseFloat[v.s]))
      [] OTHER -> Err

ValLiteral(v, allowed) == IF v.t = "str" /\ v.s \in allowed THEN Ok(v) ELSE Err

ValOptionalStr(v) == IF v = None THEN Ok(None) ELSE ValStr(v)

ValListStr(v) ==
    IF v.t = "list" /\ \A i \in 1..Len(v.l) : v.l[i].t = "str" THEN Ok(v) ELSE Err

ValOptionalDictAny(v) == IF v = None \/ v.t = "dict" THEN Ok(v) ELSE Err

(***************************************************************************)
(* src/models.py.  Each model is the operator from the constructor's input *)
(* (a dict of keyword arguments) to the validated instance, written as its *)
(* model_dump().  A field is validated when the input has it and takes its *)
(* default otherwise (a required field fails); keys the model does not     *)
(* declare are ignored.                                                    *)
(***************************************************************************)
OrchestrationAction == {"PULL", "PUSH", "WAIT", "SWITCH_TASK", "STOP", "PROCEED"}

ValAction(v) == ValLiteral(v, OrchestrationAction)
ValCommandType(v) == ValLiteral(v, {"orchestration_command"})

OrchestrationCommand(v) ==
    IF v.t # "dict" THEN Err
    ELSE LET type == IF "type" \in DOMAIN v.d THEN ValCommandType(v.d["type"]) ELSE Ok(Str("orchestration_command"))
             action == IF "action" \in DOMAIN v.d THEN ValAction(v.d["action"]) ELSE Err
             command == IF "command" \in DOMAIN v.d THEN ValOptionalStr(v.d["command"]) ELSE Ok(None)
             reason == IF "reason" \in DOMAIN v.d THEN ValStr(v.d["reason"]) ELSE Err
             metadata == IF "metadata" \in DOMAIN v.d THEN ValOptionalDictAny(v.d["metadata"]) ELSE Ok(None)
         IN  IF type.ok /\ action.ok /\ command.ok /\ reason.ok /\ metadata.ok
             THEN Ok(Dict([type |-> type.val, action |-> action.val,
                           command |-> command.val, reason |-> reason.val,
                           metadata |-> metadata.val]))
             ELSE Err

ValOptionalOrchestration(v) == IF v = None THEN Ok(None) ELSE OrchestrationCommand(v)

ValLockStatus(v) == ValLiteral(v, {"READING", "WRITING"})
ValLockType(v) == ValLiteral(v, {"DIRECT", "NEIGHBOR"})

LockEntry(v) ==
    IF v.t # "dict" THEN Err
    ELSE LET user == IF "user" \in DOMAIN v.d THEN ValStr(v.d["user"]) ELSE Err
             status == IF "status" \in DOMAIN v.d THEN ValLockStatus(v.d["status"]) ELSE Err
             lock_type == IF "lock_type" \in DOMAIN v.d THEN ValLockType(v.d["lock_type"]) ELSE Err
             timestamp == IF "timestamp" \in DOMAIN v.d THEN ValFloat(v.d["timestamp"]) ELSE Err
             message == IF "message" \in DOMAIN v.d THEN ValOptionalStr(v.d["message"]) ELSE Ok(None)
         IN  IF user.ok /\ status.ok /\ lock_type.ok /\ timestamp.ok /\ message.ok
             THEN Ok(Dict([user |-> user.val, status |-> status.val,
                           lock_type |-> lock_type.val, timestamp |-> timestamp.val,
                           message |-> message.val]))
             ELSE Err

ValLocks(v) ==
    IF v.t = "dict" /\ \A k \in DOMAIN v.d : LockEntry(v.d[k]).ok
    THEN Ok(Dict([k \in DOMAIN v.d |-> LockEntry(v.d[k]).val]))
    ELSE Err

ValCheckStatus(v) == ValLiteral(v, {"OK", "STALE", "CONFLICT", "OFFLINE"})

CheckStatusResponse(v) ==
    IF v.t # "dict" THEN Err
    ELSE LET status == IF "status" \in DOMAIN v.d THEN ValCheckStatus(v.d["status"]) ELSE Err
             repo_head == IF "repo_head" \in DOMAIN v.d THEN ValStr(v.d["repo_head"]) ELSE Err
             locks == IF "locks" \in DOMAIN v.d THEN ValLocks(v.d["locks"]) ELSE Err
             warnings == IF "warnings" \in DOMAIN v.d THEN ValListStr(v.d["warnings"]) ELSE Err
             orchestration == IF "orchestration" \in DOMAIN v.d THEN ValOptionalOrchestration(v.d["orchestration"]) ELSE Ok(None)
         IN  IF status.ok /\ repo_head.ok /\ locks.ok /\ warnings.ok /\ orchestration.ok
             THEN Ok(Dict([status |-> status.val, repo_head |-> repo_head.val,
                           locks |-> locks.val, warnings |-> warnings.val,
                           orchestration |-> orchestration.val]))
             ELSE Err

\* Mutation: validates, but hands back the input instead of the dumped instance.
PostStatusResponseUnchanged(v) ==
    IF v.t # "dict" THEN Err
    ELSE LET success == IF "success" \in DOMAIN v.d THEN ValBool(v.d["success"]) ELSE Err
             orphaned_dependencies ==
                 IF "orphaned_dependencies" \in DOMAIN v.d THEN ValListStr(v.d["orphaned_dependencies"]) ELSE Ok(List(<<>>))
             orchestration == IF "orchestration" \in DOMAIN v.d THEN ValOptionalOrchestration(v.d["orchestration"]) ELSE Ok(None)
         IN  IF success.ok /\ orphaned_dependencies.ok /\ orchestration.ok
             THEN Ok(v)
             ELSE Err

PostStatusResponse(v) ==
    IF v.t # "dict" THEN Err
    ELSE LET success == IF "success" \in DOMAIN v.d THEN ValBool(v.d["success"]) ELSE Err
             orphaned_dependencies ==
                 IF "orphaned_dependencies" \in DOMAIN v.d THEN ValListStr(v.d["orphaned_dependencies"]) ELSE Ok(List(<<>>))
             orchestration == IF "orchestration" \in DOMAIN v.d THEN ValOptionalOrchestration(v.d["orchestration"]) ELSE Ok(None)
         IN  IF success.ok /\ orphaned_dependencies.ok /\ orchestration.ok
             THEN Ok(Dict([success |-> success.val,
                           orphaned_dependencies |-> orphaned_dependencies.val,
                           orchestration |-> orchestration.val]))
             ELSE Err

(***************************************************************************)
(* Exceptions: the class of the exception and str(e).  Parent is the part  *)
(* of the class hierarchy of httpx, json and pydantic the except clauses   *)
(* of tools.py depend on.                                                  *)
(***************************************************************************)
Exc(cls, msg) == [cls |-> cls, msg |-> msg]

Parent ==
    ( "ConnectError" :> "NetworkError" @@ "ReadError" :> "NetworkError"
   @@ "NetworkError" :> "TransportError"
   @@ "ConnectTimeout" :> "TimeoutException" @@ "ReadTimeout" :> "TimeoutException"
   @@ "TimeoutException" :> "TransportError"
   @@ "TransportError" :> "RequestError" @@ "RequestError" :> "HTTPError"
   @@ "HTTPStatusError" :> "HTTPError" @@ "HTTPError" :> "Exception"
   @@ "JSONDecodeError" :> "ValueError" @@ "ValidationError" :> "ValueError"
   @@ "ValueError" :> "Exception" @@ "TypeError" :> "Exception" )

RECURSIVE IsSubclass(_, _)
IsSubclass(cls, base) ==
    \/ cls = base
    \/ cls \in DOMAIN Parent /\ IsSubclass(Parent[cls], base)

IsInstance(e, base) == IsSubclass(e.cls, base)

(***************************************************************************)
(* What `await client.post(...)` produces: an exception, or a response     *)
(* with a status code and a body that is JSON (data) or is not.            *)
(***************************************************************************)
NoOutcome == [kind |-> "pending"]
Raised(e) == [kind |-> "exception", exc |-> e]
Response(code, is_json, data) ==
    [kind |-> "response",
     resp |-> [status_code |-> code, is_json |-> is_json, data |-> data]]

\* Mutation: only server errors count as failures.
is_success_below_500(resp) == resp.status_code < 500

\* httpx.Response.is_success, which raise_for_status() tests.
is_success(resp) == 200 <= resp.status_code /\ resp.status_code <= 299

ErrorType(resp) ==
    CASE resp.status_code \div 100 = 1 -> "Informational response"
      [] resp.status_code \div 100 = 3 -> "Redirect response"
      [] resp.status_code \div 100 = 4 -> "Client error"
      [] OTHER -> "Server error"

HTTPStatusError(resp) ==
    Exc("HTTPStatusError", ErrorType(resp) \o " '" \o ToString(resp.status_code) \o "'")

JSONDecodeError == Exc("JSONDecodeError", "Expecting value: line 1 column 1 (char 0)")
TypeError(name) == Exc("TypeError", name \o "() argument after ** must be a mapping")
ValidationError(name) == Exc("ValidationError", "validation error for " \o name)

(***************************************************************************)
(* What a call hands to its caller.  origin is bookkeeping of the model:   *)
(* "remote" for a value built from the response body, "local" for one the  *)
(* handler constructs from literals.                                       *)
(***************************************************************************)
NoResult == [kind |-> "none"]
Return(v, origin) == [kind |-> "return", value |-> v, origin |-> origin]
Raise(e) == [kind |-> "raise", exc |-> e]

(***************************************************************************)
(* src/auth.py                                                             *)
(***************************************************************************)
AuthenticatedUser(login) ==
    [login |-> login, name |-> Str("Unknown"), email |-> Str("unknown@example.com")]

\* Mutation: the username is trimmed and lower-cased.
get_user_from_username_normalised(username) ==
    AuthenticatedUser(IF username = Str(" Octo-Cat ") THEN Str("octo-cat") ELSE username)

get_user_from_username(username) == AuthenticatedUser(username)

(***************************************************************************)
(* src/tools.py: the outbound requests.                                    *)
(***************************************************************************)
TIMEOUT == 5

DEFAULT_VERCEL_URL == "https://relay_devfest.vercel.app"

\* Parameter binding of the two signatures: branch defaults to "main",
\* new_repo_head to None.
BindCheckStatus(kw) ==
    [username |-> kw.username, file_paths |-> kw.file_paths,
     agent_head |-> kw.agent_head, repo_url |-> kw.repo_url,
     branch |-> IF "branch" \in DOMAIN kw THEN kw.branch ELSE Str("main")]

BindPostStatus(kw) ==
    [username |-> kw.username, file_paths |-> kw.file_paths,
     status |-> kw.status, message |-> kw.message,
     agent_head |-> kw.agent_head, repo_url |-> kw.repo_url,
     branch |-> IF "branch" \in DOMAIN kw THEN kw.branch ELSE Str("main"),
     new_repo_head |-> IF "new_repo_head" \in DOMAIN kw THEN kw.new_repo_head ELSE None]

Bind(o, kw) == IF o = "check_status" THEN BindCheckStatus(kw) ELSE BindPostStatus(kw)

CheckStatusRequest(a, url) ==
    [url |-> url \o "/api/check_status",
     headers |-> ("x-github-username" :> get_user_from_username(a.username).login),
     json |-> [file_paths |-> a.file_paths, agent_head |-> a.agent_head,
               repo_url |-> a.repo_url, branch |-> a.branch],
     timeout |-> TIMEOUT]

PostStatusRequest(a, url) ==
    [url |-> url \o "/api/post_status",
     headers |-> ("x-github-username" :> get_user_from_username(a.username).login),
     json |-> [file_paths |-> a.file_paths, status |-> a.status,
               message |-> a.message, agent_head |-> a.agent_head,
               new_repo_head |-> a.new_repo_head, repo_url |-> a.repo_url,
               branch |-> a.branch],
     timeout |-> TIMEOUT]

\* Mutation: one request per file.
OutboundRequestsPerFile(o, a, url) ==
    [i \in 1..Len(a.file_paths.l) |->
        IF o = "check_status"
        THEN CheckStatusRequest([a EXCEPT !.file_paths = List(<<a.file_paths.l[i]>>)], url)
        ELSE PostStatusRequest([a EXCEPT !.file_paths = List(<<a.file_paths.l[i]>>)], url)]

\* The requests a call issues before its await point: one client.post.
OutboundRequests(o, a, url) ==
    IF o = "check_status" THEN <<CheckStatusRequest(a, url)>>
    ELSE <<PostStatusRequest(a, url)>>

(***************************************************************************)
(* src/tools.py: the locally constructed responses.                        *)
(***************************************************************************)
check_status_offline_response ==
    CheckStatusResponse(Dict(
        [status |-> Str("OFFLINE"),
         repo_head |-> Str("unknown"),
         locks |-> EmptyDict,
         warnings |-> List(<<Str("OFFLINE_MODE: Vercel Unreachable")>>),
         orchestration |-> OrchestrationCommand(Dict(
             [action |-> Str("SWITCH_TASK"), reason |-> Str("System Offline")])).val])).val

conflict_response ==
    PostStatusResponse(Dict(
        [success |-> Bool(FALSE),
         orchestration |-> OrchestrationCommand(Dict(
             [action |-> Str("WAIT"),
              reason |-> Str("Conflict: File locked by another user")])).val])).val

post_status_offline_response ==
    PostStatusResponse(Dict(
        [success |-> Bool(FALSE),
         orchestration |-> OrchestrationCommand(Dict(
             [action |-> Str("STOP"),
              reason |-> Str("Vercel Offline - Cannot Acquire Lock")])).val])).val

error_response(e) ==
    PostStatusResponse(Dict(
        [success |-> Bool(FALSE),
         orchestration |-> OrchestrationCommand(Dict(
             [action |-> Str("STOP"),
              reason |-> Str("Error: " \o e.msg)])).val])).val

(***************************************************************************)
(* src/tools.py: the handlers after the await point, as the function from  *)
(* the outcome of client.post to what the call hands to its caller.        *)
(***************************************************************************)
\* Mutation: timeouts are not caught with the connection errors.
CaughtAsOfflineConnectOnly(e) == IsInstance(e, "ConnectError")

\* except (httpx.ConnectError, httpx.TimeoutException)
CaughtAsOffline(e) == IsInstance(e, "ConnectError") \/ IsInstance(e, "TimeoutException")

\* resp.raise_for_status(); data = resp.json();
\* validated = CheckStatusResponse(**data); return validated.model_dump()
check_status_parse(resp) ==
    IF ~is_success(resp) THEN Raise(HTTPStatusError(resp))
    ELSE IF ~resp.is_json THEN Raise(JSONDecodeError)
    ELSE IF resp.data.t # "dict" THEN Raise(TypeError("CheckStatusResponse"))
    ELSE IF ~CheckStatusResponse(resp.data).ok THEN Raise(ValidationError("CheckStatusResponse"))
    ELSE Return(CheckStatusResponse(resp.data).val, "remote")

check_status_try(out) ==
    IF out.kind = "exception" THEN Raise(out.exc)
    ELSE check_status_parse(out.resp)

\* Mutation: check_status answers every exception with its offline response.
check_status_except_all(e) == Return(check_status_offline_response, "local")

check_status_except(e) ==
    IF CaughtAsOffline(e) THEN Return(check_status_offline_response, "local")
    ELSE Raise(e)

check_status(out) ==
    LET r == check_status_try(out)
    IN  IF r.kind = "raise" THEN check_status_except(r.exc) ELSE r

\* Mutation: the conflict test compares with the wrong status code.
IsConflictWrongCode(resp) == resp.status_code = 408

IsConflict(resp) == resp.status_code = 409

\* resp.raise_for_status(); data = resp.json();
\* validated = PostStatusResponse(**data); return validated.model_dump()
post_status_parse(resp) ==
    IF ~is_success(resp) THEN Raise(HTTPStatusError(resp))
    ELSE IF ~resp.is_json THEN Raise(JSONDecodeError)
    ELSE IF resp.data.t # "dict" THEN Raise(TypeError("PostStatusResponse"))
    ELSE IF ~PostStatusResponse(resp.data).ok THEN Raise(ValidationError("PostStatusResponse"))
    ELSE Return(PostStatusResponse(resp.data).val, "remote")

post_status_try(out) ==
    IF out.kind = "exception" THEN Raise(out.exc)
    ELSE IF IsConflict(out.resp) THEN Return(conflict_response, "local")
    ELSE post_status_parse(out.resp)

post_status_except(e) ==
    IF CaughtAsOffline(e) THEN Return(post_status_offline_response, "local")
    ELSE IF IsInstance(e, "Exception") THEN Return(error_response(e), "local")
    ELSE Raise(e)

post_status(out) ==
    LET r == post_status_try(out)
    IN  IF r.kind = "raise" THEN post_status_except(r.exc) ELSE r

Handler(o, out) == IF o = "check_status" THEN check_status(out) ELSE post_status(out)

(***************************************************************************)
(* The inputs: the keyword arguments of a call and the outcomes of the     *)
(* request, drawn from small sets.                                         *)
(***************************************************************************)
MaxFiles == 2
NumCalls == 2

Calls == 1..NumCalls
SoloCalls == {1}
Ops == {"check_status", "post_status"}

Usernames == {Str("octocat"), Str(" Octo-Cat ")}
AllFiles == <<Str("src/auth.ts"), Str("src/db.ts"), Str("src/api.ts"), Str("src/ui.ts")>>
PathLists == {List(SubSeq(AllFiles, 1, n)) : n \in 0..MaxFiles}
Branches == {Str("main"), Str("dev")}
Heads == {None, Str("d4e5f6a")}
Statuses == {Str("READING"), Str("WRITING"), Str("OPEN")}

\* An optional keyword argument: left out, or given one of vals.
Optional(k, vals) == {<<>>} \cup {k :> v : v \in vals}

CheckStatusKwargs ==
    {b @@ x : b \in [username : Usernames, file_paths : PathLists,
                     agent_head : {Str("a1b2c3d")},
                     repo_url : {Str("https://github.com/acme/relay")}],
              x \in Optional("branch", Branches)}

PostStatusKwargs ==
    {b @@ x @@ y : b \in [username : Usernames, file_paths : PathLists,
                          status : Statuses, message : {Str("refactoring auth")},
                          agent_head : {Str("a1b2c3d")},
                          repo_url : {Str("https://github.com/acme/relay")}],
                   x \in Optional("branch", Branches),
                   y \in Optional("new_repo_head", Heads)}

Kwargs(o) == IF o = "check_status" THEN CheckStatusKwargs ELSE PostStatusKwargs

\* A response body is built field by field; a field may be left out.
Absent == [t |-> "absent"]
Strip(r) == Dict([k \in {j \in DOMAIN r : r[j] # Absent} |-> r[k]])

FullOrchestration ==
    Dict([type |-> Str("orchestration_command"), action |-> Str("PROCEED"),
          command |-> Str("git pull"), reason |-> Str("Lock acquired"),
          metadata |-> Dict([retry_after |-> Num(30)])])
\* Leaves the optional fields out and carries a key the model does not declare.
MinimalOrchestration ==
    Dict([action |-> Str("PUSH"), reason |-> Str("Push your changes"), priority |-> Num(1)])
\* An action outside OrchestrationAction.
BadOrchestration == Dict([action |-> Str("RETRY"), reason |-> Str("Try again")])

FullLock ==
    Dict([user |-> Str("hubot"), status |-> Str("WRITING"), lock_type |-> Str("DIRECT"),
          timestamp |-> Num(7), message |-> Str("editing")])
\* No message, the timestamp as a numeric string, an undeclared key.
LaxLock ==
    Dict([user |-> Str("hubot"), status |-> Str("READING"), lock_type |-> Str("NEIGHBOR"),
          timestamp |-> Str("7"), expiry |-> Num(9)])
BadLock ==
    Dict([user |-> Str("hubot"), status |-> Str("OPEN"), lock_type |-> Str("DIRECT"),
          timestamp |-> Num(7)])

CheckStatusBodies ==
    {Strip(r) : r \in
        [status : {Absent, Str("OK"), Str("CONFLICT"), Str("WEIRD")},
         repo_head : {Str("f00dbabe"), Num(0)},
         locks : {EmptyDict, Dict("src/auth.ts" :> FullLock),
                  Dict("src/auth.ts" :> LaxLock), Dict("src/auth.ts" :> BadLock)},
         warnings : {List(<<>>), List(<<Str("NEIGHBOR_LOCKED")>>)},
         orchestration : {Absent, FullOrchestration, MinimalOrchestration},
         server_time : {Absent, Num(7)}]}

PostStatusBodies ==
    {Strip(r) : r \in
        [success : {Absent, Bool(TRUE), Bool(FALSE), Str("true")},
         orphaned_dependencies : {Absent, List(<<Str("src/db.ts")>>), Num(0)},
         orchestration : {Absent, None, FullOrchestration, MinimalOrchestration,
                          BadOrchestration},
         server_time : {Absent, Num(7)}]}

Bodies(o) == IF o = "check_status" THEN CheckStatusBodies ELSE PostStatusBodies

StatusCodes == {200, 302, 404, 409, 500}

TransportErrors ==
    {Exc("ConnectError", "All connection attempts failed"),
     Exc("ConnectTimeout", ""), Exc("ReadTimeout", ""),
     Exc("ReadError", "Connection reset by peer")}

OutcomesOver(bodies) ==
    {Raised(e) : e \in TransportErrors}
    \cup {Response(code, FALSE, None) : code \in StatusCodes}
    \cup {Response(code, TRUE, data) : code \in StatusCodes,
                                       data \in bodies \cup {List(<<>>)}}

CheckStatusOutcomes == OutcomesOver(CheckStatusBodies)
PostStatusOutcomes == OutcomesOver(PostStatusBodies)

Outcomes(o) == IF o = "check_status" THEN CheckStatusOutcomes ELSE PostStatusOutcomes

(***************************************************************************)
(* The state machine.                                                      *)
(***************************************************************************)
NoArgs == <<>>

Init ==
    /\ VERCEL_URL \in {DEFAULT_VERCEL_URL, "http://localhost:3000"}
    /\ pc = [c \in Calls |-> "idle"]
    /\ op = [c \in Calls |-> "none"]
    /\ args = [c \in Calls |-> NoArgs]
    /\ sent = [c \in Calls |-> <<>>]
    /\ outcome = [c \in Calls |-> NoOutcome]
    /\ result = [c \in Calls |-> NoResult]

\* The call starts: parameters are bound and the handler runs up to
\* `await client.post(...)`, which issues the request.
Invoke(c, o, kw) ==
    /\ pc[c] = "idle"
    /\ op' = [op EXCEPT ![c] = o]
    /\ args' = [args EXCEPT ![c] = kw]
    /\ sent' = [sent EXCEPT ![c] = @ \o OutboundRequests(o, Bind(o, kw), VERCEL_URL)]
    /\ pc' = [pc EXCEPT ![c] = "awaiting"]
    /\ UNCHANGED <<VERCEL_URL, outcome, result>>

\* The environment: the request of call c ends with an exception or a response.
Respond(c, out) ==
    /\ pc[c] = "awaiting"
    /\ outcome' = [outcome EXCEPT ![c] = out]
    /\ pc' = [pc EXCEPT ![c] = "ready"]
    /\ UNCHANGED <<VERCEL_URL, op, args, sent, result>>

\* Mutation: the outcome is kept in one slot shared by the calls.
AwaitedShared(c) == outcome[CHOOSE d \in Calls : pc[d] = "ready"]

\* What the resumed coroutine of call c gets from its await.
Awaited(c) == outcome[c]

\* The call resumes after the await and runs to its end.
Resume(c) ==
    /\ pc[c] = "ready"
    /\ LET r == Handler(op[c], Awaited(c))
       IN  /\ result' = [result EXCEPT ![c] = r]
           /\ pc' = [pc EXCEPT ![c] = IF r.kind = "return" THEN "returned" ELSE "raised"]
    /\ UNCHANGED <<VERCEL_URL, op, args, sent, outcome>>

\* One call, with every input.
Next ==
    \/ \E c \in SoloCalls : pc[c] = "idle" /\ \E o \in Ops : \E kw \in Kwargs(o) : Invoke(c, o, kw)
    \/ \E c \in SoloCalls : pc[c] = "awaiting" /\ \E out \in Outcomes(op[c]) : Respond(c, out)
    \/ \E c \in SoloCalls : Resume(c)

Spec == Init /\ [][Next]_vars

(***************************************************************************)
(* Concurrent calls: every call of Calls, interleaved at the await points  *)
(* in every order, over a few inputs per tool.                             *)
(***************************************************************************)
ConcKwargs(o) ==
    IF o = "check_status"
    THEN {[username |-> Str("octocat"), file_paths |-> List(SubSeq(AllFiles, 1, 1)),
           agent_head |-> Str("a1b2c3d"), repo_url |-> Str("https://github.com/acme/relay")],
          [username |-> Str(" Octo-Cat "), file_paths |-> List(SubSeq(AllFiles, 1, 2)),
           agent_head |-> Str("a1b2c3d"), repo_url |-> Str("https://github.com/acme/relay"),
           branch |-> Str("dev")]}
    ELSE {[username |-> Str("octocat"), file_paths |-> List(SubSeq(AllFiles, 1, 1)),
           status |-> Str("WRITING"), message |-> Str("refactoring auth"),
           agent_head |-> Str("a1b2c3d"), repo_url |-> Str("https://github.com/acme/relay")],
          [username |-> Str(" Octo-Cat "), file_paths |-> List(SubSeq(AllFiles, 1, 2)),
           status |-> Str("OPEN"), message |-> Str("done"),
           agent_head |-> Str("a1b2c3d"), repo_url |-> Str("https://github.com/acme/relay"),
           branch |-> Str("dev"), new_repo_head |-> Str("d4e5f6a")]}

ConcCheckStatusOutcomes ==
    {Raised(Exc("ConnectError", "All connection attempts failed")),
     Response(409, FALSE, None),
     Response(500, FALSE, None),
     Response(200, TRUE, Dict([status |-> Str("OK"), repo_head |-> Str("f00dbabe"),
                               locks |-> EmptyDict, warnings |-> List(<<>>)]))}

ConcPostStatusOutcomes ==
    {Raised(Exc("ReadTimeout", "")),
     Response(409, FALSE, None),
     Response(500, FALSE, None),
     Response(200, TRUE, Dict([success |-> Bool(TRUE),
                               orchestration |-> MinimalOrchestration]))}

ConcOutcomes(o) ==
    IF o = "check_status" THEN ConcCheckStatusOutcomes ELSE ConcPostStatusOutcomes

NextConc ==
    \/ \E c \in Calls : pc[c] = "idle" /\ \E o \in Ops : \E kw \in ConcKwargs(o) : Invoke(c, o, kw)
    \/ \E c \in Calls : pc[c] = "awaiting" /\ \E out \in ConcOutcomes(op[c]) : Respond(c, out)
    \/ \E c \in Calls : Resume(c)

SpecConc == Init /\ [][NextConc]_vars

(***************************************************************************)
(* Vocabulary of the properties.                                           *)
(***************************************************************************)
Started(c) == pc[c] # "idle"
Finished(c) == pc[c] \in {"returned", "raised"}
Returned(c) == pc[c] = "returned"

GotResponse(c) == outcome[c].kind = "response"
GotException(c) == outcome[c].kind = "exception"
\* The exception classes that are connection errors or timeouts.
ConnectOrTimeout(c) ==
    GotException(c) /\ outcome[c].exc.cls \in {"ConnectError", "ConnectTimeout", "ReadTimeout"}
StatusCode(c) == outcome[c].resp.status_code
Got2xx(c) == GotResponse(c) /\ StatusCode(c) \in 200..299
Got409(c) == GotResponse(c) /\ StatusCode(c) = 409
Body(c) == outcome[c].resp.data
Value(c) == result[c].value

(***************************************************************************)
(* C1.  When the outbound call fails with a connection error or a timeout, *)
(* the operation returns (does not raise) its fixed default payload,       *)
(* whatever the arguments: check_status returns status "OFFLINE",          *)
(* repo_head "unknown", locks {}, warnings ["OFFLINE_MODE: Vercel          *)
(* Unreachable"] and action SWITCH_TASK with reason "System Offline";      *)
(* post_status returns success false, orphaned_dependencies [] and action  *)
(* STOP with reason "Vercel Offline - Cannot Acquire Lock".                *)
(***************************************************************************)
C1_OfflineDefault ==
    \A c \in Calls :
        Finished(c) /\ ConnectOrTimeout(c) =>
            /\ result[c].kind = "return"
            /\ op[c] = "check_status" =>
                /\ Value(c).d.status = Str("OFFLINE")
                /\ Value(c).d.repo_head = Str("unknown")
                /\ Value(c).d.locks = EmptyDict
                /\ Value(c).d.warnings = List(<<Str("OFFLINE_MODE: Vercel Unreachable")>>)
                /\ Value(c).d.orchestration.d.action = Str("SWITCH_TASK")
                /\ Value(c).d.orchestration.d.reason = Str("System Offline")
            /\ op[c] = "post_status" =>
                /\ Value(c).d.success = Bool(FALSE)
                /\ Value(c).d.orphaned_dependencies = List(<<>>)
                /\ Value(c).d.orchestration.d.action = Str("STOP")
                /\ Value(c).d.orchestration.d.reason =
                       Str("Vercel Offline - Cannot Acquire Lock")

C1_Witness ==
    \E c \in Calls :
        /\ Returned(c) /\ op[c] = "check_status"
        /\ GotException(c) /\ outcome[c].exc.cls = "ReadTimeout"
        /\ Len(args[c].file_paths.l) = 2

(***************************************************************************)
(* C2.  A post_status call whose response has status code 409 returns      *)
(* success false, orphaned_dependencies [] and action WAIT with reason     *)
(* "Conflict: File locked by another user", whatever the body holds.       *)
(***************************************************************************)
C2_ConflictIsWait ==
    \A c \in Calls :
        Finished(c) /\ op[c] = "post_status" /\ Got409(c) =>
            /\ result[c].kind = "return"
            /\ Value(c).d.success = Bool(FALSE)
            /\ Value(c).d.orphaned_dependencies = List(<<>>)
            /\ Value(c).d.orchestration.d.action = Str("WAIT")
            /\ Value(c).d.orchestration.d.reason =
                   Str("Conflict: File locked by another user")

C2_Witness ==
    \E c \in Calls :
        /\ Returned(c) /\ op[c] = "post_status" /\ Got409(c)
        /\ outcome[c].resp.is_json /\ Body(c).t = "dict"
        /\ "success" \in DOMAIN Body(c).d /\ Body(c).d.success = Bool(TRUE)

(***************************************************************************)
(* C3.  For every remote outcome each operation returns a value of its     *)
(* response shape and never ends by raising an exception to the caller.    *)
(***************************************************************************)
C3_NeverRaises == \A c \in Calls : pc[c] # "raised"

(***************************************************************************)
(* C4, as claimed.  A returned value is constructed locally only when the  *)
(* outbound call failed with a connection error or timeout or the status   *)
(* code is 409; every other returned value is derived from the body.       *)
(***************************************************************************)
C4_LocalOnlyOfflineOrConflict ==
    \A c \in Calls :
        Returned(c) /\ result[c].origin = "local" => ConnectOrTimeout(c) \/ Got409(c)

\* The body of the response validates against the model of the operation.
BodyValidates(c) ==
    /\ Got2xx(c) /\ outcome[c].resp.is_json /\ Body(c).t = "dict"
    /\ IF op[c] = "check_status" THEN CheckStatusResponse(Body(c)).ok
       ELSE PostStatusResponse(Body(c)).ok

(***************************************************************************)
(* C4, amended.  check_status returns a locally constructed value only     *)
(* after a connection error or timeout.  post_status returns one after a   *)
(* connection error or timeout, on status 409, and also whenever anything  *)
(* else fails (another transport error, another non-2xx status, a body     *)
(* that is not JSON or does not validate): then success is false and the   *)
(* action is STOP.  Every other returned value comes from a 2xx response   *)
(* whose body validates.                                                   *)
(***************************************************************************)
C4_LocalDefaults ==
    \A c \in Calls :
        Returned(c) =>
            /\ result[c].origin = "local" /\ op[c] = "check_status" => ConnectOrTimeout(c)
            /\ result[c].origin = "local" /\ op[c] = "post_status" =>
                \/ ConnectOrTimeout(c)
                \/ Got409(c)
                \/ /\ ~BodyValidates(c)
                   /\ Value(c).d.success = Bool(FALSE)
                   /\ Value(c).d.orchestration.d.action = Str("STOP")
            /\ result[c].origin = "remote" =>
                /\ BodyValidates(c)
                /\ ~(op[c] = "post_status" /\ Got409(c))

C4_Witness ==
    \E c \in Calls :
        /\ Returned(c) /\ op[c] = "post_status" /\ result[c].origin = "local"
        /\ GotResponse(c) /\ StatusCode(c) = 404
        /\ Value(c).d.orchestration.d.reason = Str("Error: Client error '404'")

(***************************************************************************)
(* C5, as claimed.  On a successful response the returned value equals     *)
(* the JSON body of the response: no field added, dropped or altered.      *)
(***************************************************************************)
C5_PassThroughUnchanged ==
    \A c \in Calls :
        Returned(c) /\ result[c].origin = "remote" => Value(c) = Body(c)

\* The fields the models of src/models.py declare.
CheckStatusFields == {"status", "repo_head", "locks", "warnings", "orchestration"}
PostStatusFields == {"success", "orphaned_dependencies", "orchestration"}
OrchestrationFields == {"type", "action", "command", "reason", "metadata"}
LockFields == {"user", "status", "lock_type", "timestamp", "message"}

\* Field k of the returned dict v against the body's dict b: unchanged when
\* the body gives it, dflt when the body leaves it out.
Kept(b, v, k) == k \in DOMAIN b => v[k] = b[k]
Defaulted(b, v, k, dflt) == k \notin DOMAIN b => v[k] = dflt

OrchestrationNormalised(b, v) ==
    IF b = None THEN v = None
    ELSE /\ DOMAIN v.d = OrchestrationFields
         /\ \A k \in OrchestrationFields : Kept(b.d, v.d, k)
         /\ Defaulted(b.d, v.d, "type", Str("orchestration_command"))
         /\ Defaulted(b.d, v.d, "command", None)
         /\ Defaulted(b.d, v.d, "metadata", None)

OptionalOrchestrationNormalised(b, v) ==
    IF "orchestration" \in DOMAIN b
    THEN OrchestrationNormalised(b.orchestration, v.orchestration)
    ELSE v.orchestration = None

LockNormalised(b, v) ==
    /\ DOMAIN v.d = LockFields
    /\ \A k \in {"user", "status", "lock_type", "message"} : Kept(b.d, v.d, k)
    /\ Defaulted(b.d, v.d, "message", None)
    /\ v.d.timestamp.t = "num"
    /\ b.d.timestamp.t = "num" => v.d.timestamp = b.d.timestamp
    /\ b.d.timestamp = Str("7") => v.d.timestamp = Num(7)

\* The body has exactly the declared fields at every level, each with a
\* value of its declared type.
CanonicalOrchestration(b) ==
    b = None \/ DOMAIN b.d = OrchestrationFields

CanonicalBody(c) ==
    IF op[c] = "check_status"
    THEN /\ DOMAIN Body(c).d = CheckStatusFields
         /\ CanonicalOrchestration(Body(c).d.orchestration)
         /\ \A f \in DOMAIN Body(c).d.locks.d :
               /\ DOMAIN Body(c).d.locks.d[f].d = LockFields
               /\ Body(c).d.locks.d[f].d.timestamp.t = "num"
    ELSE /\ DOMAIN Body(c).d = PostStatusFields
         /\ CanonicalOrchestration(Body(c).d.orchestration)
         /\ Body(c).d.success.t = "bool"

(***************************************************************************)
(* C5, amended.  On a 2xx response whose body validates, the returned      *)
(* value is the body normalised to the model: exactly the declared fields  *)
(* at every level (undeclared fields dropped), every declared field the    *)
(* body gives with a value of its type unchanged, every optional field the *)
(* body leaves out set to its default, and lax values coerced (success     *)
(* "true" to true, timestamp "7" to 7).  It equals the body when the body  *)
(* already has exactly the declared fields with values of their types.     *)
(***************************************************************************)
C5_NormalisedPassThrough ==
    \A c \in Calls :
        /\ Finished(c) /\ BodyValidates(c) => Returned(c) /\ result[c].origin = "remote"
        /\ Returned(c) /\ result[c].origin = "remote" =>
            /\ op[c] = "check_status" =>
                /\ DOMAIN Value(c).d = CheckStatusFields
                /\ \A k \in {"status", "repo_head", "warnings"} :
                       Kept(Body(c).d, Value(c).d, k)
                /\ DOMAIN Value(c).d.locks.d = DOMAIN Body(c).d.locks.d
                /\ \A f \in DOMAIN Body(c).d.locks.d :
                       LockNormalised(Body(c).d.locks.d[f], Value(c).d.locks.d[f])
                /\ OptionalOrchestrationNormalised(Body(c).d, Value(c).d)
            /\ op[c] = "post_status" =>
                /\ DOMAIN Value(c).d = PostStatusFields
                /\ Value(c).d.success.t = "bool"
                /\ Body(c).d.success.t = "bool" => Value(c).d.success = Body(c).d.success
                /\ Body(c).d.success = Str("true") => Value(c).d.success = Bool(TRUE)
                /\ Kept(Body(c).d, Value(c).d, "orphaned_dependencies")
                /\ Defaulted(Body(c).d, Value(c).d, "orphaned_dependencies", List(<<>>))
                /\ OptionalOrchestrationNormalised(Body(c).d, Value(c).d)
            /\ CanonicalBody(c) => Value(c) = Body(c)

\* A body that leaves out an optional field, carries an undeclared one and
\* has an orchestration command with an undeclared key.
C5_Witness ==
    \E c \in Calls :
        /\ Returned(c) /\ result[c].origin = "remote" /\ op[c] = "post_status"
        /\ "orphaned_dependencies" \notin DOMAIN Body(c).d
        /\ "server_time" \in DOMAIN Body(c).d
        /\ "orchestration" \in DOMAIN Body(c).d
        /\ Body(c).d.orchestration = MinimalOrchestration
        /\ Body(c).d.success = Str("true")
        /\ Value(c) # Body(c)

(***************************************************************************)
(* C6.  Every call issues exactly one outbound request, which carries the  *)
(* complete file_paths list of the call, and never a second one: whatever  *)
(* the outcome, the call ends without retrying.                            *)
(***************************************************************************)
C6_ExactlyOneRequest ==
    \A c \in Calls :
        /\ ~Started(c) => sent[c] = <<>>
        /\ Started(c) =>
            /\ Len(sent[c]) = 1
            /\ sent[c][1].json.file_paths = args[c].file_paths

C6_Witness ==
    \E c \in Calls :
        /\ Finished(c) /\ GotResponse(c) /\ StatusCode(c) = 500
        /\ Len(args[c].file_paths.l) = 2
        /\ Len(sent[c]) = 1

(***************************************************************************)
(* C8.  post_status requires new_repo_head when status is "OPEN": no       *)
(* request with status "OPEN" and a null new_repo_head is forwarded.       *)
(***************************************************************************)
C8_OpenRequiresNewRepoHead ==
    \A c \in Calls :
        op[c] = "post_status" =>
            \A i \in 1..Len(sent[c]) :
                ~(sent[c][i].json.status = Str("OPEN") /\ sent[c][i].json.new_repo_head = None)

(***************************************************************************)
(* C9.  The outbound request is built from the inputs without alteration:  *)
(* the x-github-username header is the username as given; check_status     *)
(* posts file_paths, agent_head, repo_url and branch to /api/check_status; *)
(* post_status posts file_paths, status, message, agent_head,              *)
(* new_repo_head, repo_url and branch to /api/post_status; an omitted      *)
(* branch is sent as "main" and an omitted new_repo_head as null.          *)
(***************************************************************************)
C9_RequestFromInputs ==
    \A c \in Calls :
        Started(c) =>
            /\ sent[c][1].headers["x-github-username"] = args[c].username
            /\ DOMAIN sent[c][1].headers = {"x-github-username"}
            /\ \A k \in DOMAIN args[c] \ {"username"} : sent[c][1].json[k] = args[c][k]
            /\ "branch" \notin DOMAIN args[c] => sent[c][1].json.branch = Str("main")
            /\ op[c] = "check_status" =>
                /\ sent[c][1].url = VERCEL_URL \o "/api/check_status"
                /\ DOMAIN sent[c][1].json = {"file_paths", "agent_head", "repo_url", "branch"}
            /\ op[c] = "post_status" =>
                /\ sent[c][1].url = VERCEL_URL \o "/api/post_status"
                /\ DOMAIN sent[c][1].json =
                       {"file_paths", "status", "message", "agent_head", "new_repo_head",
                        "repo_url", "branch"}
                /\ "new_repo_head" \notin DOMAIN args[c] =>
                       sent[c][1].json.new_repo_head = None

C9_Witness ==
    \E c \in Calls :
        /\ Started(c) /\ op[c] = "post_status"
        /\ args[c].username = Str(" Octo-Cat ")
        /\ "branch" \notin DOMAIN args[c]
        /\ "new_repo_head" \notin DOMAIN args[c]
        /\ Len(sent[c]) = 1

(***************************************************************************)
(* C10.  post_status never fabricates a successful lock update: a result   *)
(* with success true comes from a response with a 2xx status (so not 409)  *)
(* whose body validates as PostStatusResponse with success true; every     *)
(* locally produced result has success false and action WAIT or STOP.      *)
(***************************************************************************)
C10_NoFabricatedSuccess ==
    \A c \in Calls :
        Returned(c) /\ op[c] = "post_status" =>
            /\ Value(c).d.success = Bool(TRUE) =>
                /\ Got2xx(c) /\ ~Got409(c)
                /\ outcome[c].resp.is_json /\ Body(c).t = "dict"
                /\ PostStatusResponse(Body(c)).ok
                /\ PostStatusResponse(Body(c)).val.d.success = Bool(TRUE)
                /\ result[c].origin = "remote"
            /\ result[c].origin = "local" =>
                /\ Value(c).d.success = Bool(FALSE)
                /\ Value(c).d.orchestration.d.action \in {Str("WAIT"), Str("STOP")}

C10_Witness ==
    \E c \in Calls :
        /\ Returned(c) /\ op[c] = "post_status"
        /\ Value(c).d.success = Bool(TRUE)
        /\ StatusCode(c) = 200

(***************************************************************************)
(* C7.  Calls are independent: with the calls interleaved at their await   *)
(* points in any order, the result of a call is the result the handler     *)
(* gives for that call's own tool and the outcome of its own request, as   *)
(* when it runs alone; a step of one call changes nothing of another call, *)
(* and no step writes the one value the calls share, VERCEL_URL.           *)
(***************************************************************************)
ResultIsOwn == \A c \in Calls : Finished(c) => result[c] = Handler(op[c], outcome[c])

LocalState(c) == <<pc[c], op[c], args[c], sent[c], outcome[c], result[c]>>

StepTouchesOnlyItsCall ==
    /\ VERCEL_URL' = VERCEL_URL
    /\ \A c \in Calls :
           LocalState(c)' # LocalState(c) =>
               \A d \in Calls \ {c} : LocalState(d)' = LocalState(d)

====
